---- MODULE Spec2Model ----
(***************************************************************************)
(* A model of the multihash codec of src/index.js: the name/code tables,   *)
(* coerceCode, isAppCode, validate, decode, encode and the exported        *)
(* dispatcher function.  Every function is pure; the state machine draws   *)
(* the arguments of one call in Init and applies one operation to them.    *)
(* A successful encode may be followed by a decode of the buffer it        *)
(* returned (the round trip).                                              *)
(***************************************************************************)
EXTENDS Integers, Sequences, FiniteSets, TLC

VARIABLES pc, op, a1, a2, a3, res

vars == <<pc, op, a1, a2, a3, res>>

(***************************************************************************)
(* Bounds of the model.                                                    *)
(***************************************************************************)
\* longest digest / envelope tail that is enumerated (129 is the longest
\* envelope validate accepts, 127 the longest digest encode accepts)
MaxLen == 130
\* number of distinct fill patterns for the bytes of a buffer
MaxFill == 1

(***************************************************************************)
(* JavaScript values.  A number is n + h/2 (h = 1 is a non-integer such as *)
(* 1.5) or NaN; a Buffer is a sequence of bytes; an Error carries its      *)
(* message in s.                                                           *)
(***************************************************************************)
Blank == [t |-> "undefined", n |-> 0, h |-> 0, nan |-> FALSE, s |-> "", b |-> <<>>]

Undefined == Blank
Null == [Blank EXCEPT !.t = "null"]
Num(k) == [Blank EXCEPT !.t = "number", !.n = k]
Half(k) == [Blank EXCEPT !.t = "number", !.n = k, !.h = 1]
NaN == [Blank EXCEPT !.t = "number", !.nan = TRUE]
Str(x) == [Blank EXCEPT !.t = "string", !.s = x]
Bool(x) == [Blank EXCEPT !.t = "boolean", !.n = IF x THEN 1 ELSE 0]
Buf(bytes) == [Blank EXCEPT !.t = "buffer", !.b = bytes]
Obj == [Blank EXCEPT !.t = "object"]
Err(msg) == [Blank EXCEPT !.t = "error", !.s = msg]

\* twice the value of a number that is not NaN
Twice(v) == 2 * v.n + v.h

\* typeof v
TypeOf(v) ==
  IF v.t \in {"undefined", "number", "string", "boolean"} THEN v.t ELSE "object"

\* the truthiness of v, as `!v` and `if (v)` read it
Truthy(v) ==
  CASE v.t \in {"undefined", "null"} -> FALSE
    [] v.t = "number" -> ~v.nan /\ Twice(v) # 0
    [] v.t = "string" -> v.s # ""
    [] v.t = "boolean" -> v.n = 1
    [] OTHER -> TRUE

\* v == null
IsNullish(v) == v.t \in {"undefined", "null"}

\* Buffer.isBuffer(v)
IsBuffer(v) == v.t = "buffer"

\* v > k for a number v and an integer k
NumGt(v, k) == v.t = "number" /\ ~v.nan /\ Twice(v) > 2 * k

\* v < k for a number v and an integer k
NumLt(v, k) == v.t = "number" /\ ~v.nan /\ Twice(v) < 2 * k

\* k !== v for the integer k (a buffer's length) and any value v
StrictNe(k, v) == ~(v.t = "number" /\ ~v.nan /\ v.h = 0 /\ v.n = k)

\* the byte that new Buffer([.., v, ..]) stores for a number v: truncated
\* towards zero, modulo 256
ToUint8(v) ==
  IF v.nan THEN 0
  ELSE IF Twice(v) >= 0 THEN (Twice(v) \div 2) % 256
  ELSE (0 - ((0 - Twice(v)) \div 2)) % 256

(***************************************************************************)
(* The outcome of a call: a returned value or a thrown one; decode returns *)
(* a record, kept in dec.                                                  *)
(***************************************************************************)
NoDecoded == [code |-> 0, name |-> Undefined, length |-> 0, digest |-> <<>>]

Return(v) == [thrown |-> FALSE, val |-> v, dec |-> NoDecoded]
Throw(msg) == [thrown |-> TRUE, val |-> Err(msg), dec |-> NoDecoded]
ThrowValue(e) == [thrown |-> TRUE, val |-> e, dec |-> NoDecoded]
ReturnDecoded(d) == [thrown |-> FALSE, val |-> [Blank EXCEPT !.t = "decoded"], dec |-> d]

(***************************************************************************)
(* The messages of the errors the code creates (the fixed part of each).   *)
(***************************************************************************)
MsgDispatchArgs == "multihash must be called with the encode or decode parameters."
MsgEncodeArgs == "multihash encode requires at least two args: hashfn, digest"
MsgDigestType == "digest should be a Buffer"
MsgLengthMismatch == "digest length should be equal to specified length."
MsgLengthTooLarge == "multihash does not yet support digest lengths greater than 127 bytes."
MsgNotBuffer == "multihash must be a Buffer"
MsgTooShort == "multihash too short. must be > 3 bytes."
MsgTooLong == "multihash too long. must be < 129 bytes."
MsgUnknownCode == "multihash unknown function code: 0x"
MsgInconsistent == "multihash length inconsistent: 0x"
MsgUnknownName == "Unrecognized hash function named: "
MsgCodeType == "Hash function code should be a number. Got: "
MsgUnrecognizedCode == "Unrecognized function code: "

(***************************************************************************)
(* The tables.                                                             *)
(***************************************************************************)
\* mh.names: name -> code (0x11, 0x12, 0x13, 0x14, 0x40, 0x41), the entries
\* of the literal the Map is constructed from
names ==
  ("sha1" :> 17) @@ ("sha2-256" :> 18) @@ ("sha2-512" :> 19) @@
  ("sha3" :> 20) @@ ("blake2b" :> 64) @@ ("blake2s" :> 65)

\* invert(map): value -> key
invert(map) ==
  [v \in {map[k] : k \in DOMAIN map} |-> CHOOSE k \in DOMAIN map : map[k] = v]

\* mh.codes: code -> name
codes == invert(names)

\* mh.names.get(key)
namesGet(key) ==
  IF key.t = "string" /\ key.s \in DOMAIN names THEN Num(names[key.s]) ELSE Undefined

\* mh.codes.get(key)
codesGet(key) ==
  IF key.t = "number" /\ ~key.nan /\ key.h = 0 /\ key.n \in DOMAIN codes
  THEN Str(codes[key.n]) ELSE Undefined

(***************************************************************************)
(* The functions.                                                          *)
(***************************************************************************)
\* a variant of isAppCode whose upper bound is inclusive: code <= 0x10
isAppCodeInclusive(code) == NumGt(code, 0) /\ NumLt(code, 17)

\* mh.isAppCode(code), code a number: code > 0 && code < 0x10
isAppCode(code) == NumGt(code, 0) /\ NumLt(code, 16)

\* mh.coerceCode(hashfn)
coerceCode(hashfn) ==
  IF TypeOf(hashfn) = "string" /\ ~Truthy(namesGet(hashfn)) THEN Throw(MsgUnknownName)
  ELSE LET code == IF TypeOf(hashfn) = "string" THEN namesGet(hashfn) ELSE hashfn IN
    IF TypeOf(code) # "number" THEN Throw(MsgCodeType)
    ELSE IF ~Truthy(codesGet(code)) /\ ~isAppCode(code) THEN Throw(MsgUnrecognizedCode)
    ELSE Return(code)

\* multihash.slice(2) of a buffer's bytes
Slice2(bytes) == SubSeq(bytes, 3, Len(bytes))

\* a variant of validate that checks the upper size after the code
validateLateTooLong(multihash) ==
  IF ~IsBuffer(multihash) THEN Err(MsgNotBuffer)
  ELSE IF Len(multihash.b) < 3 THEN Err(MsgTooShort)
  ELSE IF ~isAppCode(Num(multihash.b[1])) /\ ~Truthy(codesGet(Num(multihash.b[1])))
    THEN Err(MsgUnknownCode)
  ELSE IF Len(multihash.b) > 129 THEN Err(MsgTooLong)
  ELSE IF Len(Slice2(multihash.b)) # multihash.b[2] THEN Err(MsgInconsistent)
  ELSE Undefined

\* a variant of validate whose lower size is 2: multihash.length < 2
validateShortTwo(multihash) ==
  IF ~IsBuffer(multihash) THEN Err(MsgNotBuffer)
  ELSE IF Len(multihash.b) < 2 THEN Err(MsgTooShort)
  ELSE IF Len(multihash.b) > 129 THEN Err(MsgTooLong)
  ELSE IF ~isAppCode(Num(multihash.b[1])) /\ ~Truthy(codesGet(Num(multihash.b[1])))
    THEN Err(MsgUnknownCode)
  ELSE IF Len(Slice2(multihash.b)) # multihash.b[2] THEN Err(MsgInconsistent)
  ELSE Undefined

\* a variant of validate that measures multihash.slice(1)
validateSliceOne(multihash) ==
  IF ~IsBuffer(multihash) THEN Err(MsgNotBuffer)
  ELSE IF Len(multihash.b) < 3 THEN Err(MsgTooShort)
  ELSE IF Len(multihash.b) > 129 THEN Err(MsgTooLong)
  ELSE IF ~isAppCode(Num(multihash.b[1])) /\ ~Truthy(codesGet(Num(multihash.b[1])))
    THEN Err(MsgUnknownCode)
  ELSE IF Len(multihash.b) - 1 # multihash.b[2] THEN Err(MsgInconsistent)
  ELSE Undefined

\* mh.validate(multihash): an Error, or undefined
validate(multihash) ==
  IF ~IsBuffer(multihash) THEN Err(MsgNotBuffer)
  ELSE IF Len(multihash.b) < 3 THEN Err(MsgTooShort)
  ELSE IF Len(multihash.b) > 129 THEN Err(MsgTooLong)
  ELSE IF ~isAppCode(Num(multihash.b[1])) /\ ~Truthy(codesGet(Num(multihash.b[1])))
    THEN Err(MsgUnknownCode)
  ELSE IF Len(Slice2(multihash.b)) # multihash.b[2] THEN Err(MsgInconsistent)
  ELSE Undefined

\* a variant of decode that looks the name up in mh.names
decodeNamesTable(multihash) ==
  LET err == validate(multihash) IN
  IF Truthy(err) THEN ThrowValue(err)
  ELSE LET code == multihash.b[1] IN
    ReturnDecoded([code |-> code,
                   name |-> namesGet(Num(code)),
                   length |-> multihash.b[2],
                   digest |-> Slice2(multihash.b)])

\* mh.decode(multihash)
decode(multihash) ==
  LET err == validate(multihash) IN
  IF Truthy(err) THEN ThrowValue(err)
  ELSE LET code == multihash.b[1] IN
    ReturnDecoded([code |-> code,
                   name |-> codesGet(Num(code)),
                   length |-> multihash.b[2],
                   digest |-> Slice2(multihash.b)])

\* a variant of encode that checks the digest's type before the code
encodeDigestFirst(digest, hashfn, length) ==
  IF ~Truthy(digest) \/ ~Truthy(hashfn) THEN Throw(MsgEncodeArgs)
  ELSE IF ~IsBuffer(digest) THEN Throw(MsgDigestType)
  ELSE LET c == coerceCode(hashfn) IN
    IF c.thrown THEN c
    ELSE LET len == IF ~Truthy(length) THEN Num(Len(digest.b)) ELSE length IN
      IF Truthy(len) /\ StrictNe(Len(digest.b), len) THEN Throw(MsgLengthMismatch)
      ELSE IF NumGt(len, 127) THEN Throw(MsgLengthTooLarge)
      ELSE Return(Buf(<<ToUint8(c.val), ToUint8(len)>> \o digest.b))

\* mh.encode(digest, hashfn, length)
encode(digest, hashfn, length) ==
  IF ~Truthy(digest) \/ ~Truthy(hashfn) THEN Throw(MsgEncodeArgs)
  ELSE LET c == coerceCode(hashfn) IN
    IF c.thrown THEN c
    ELSE IF ~IsBuffer(digest) THEN Throw(MsgDigestType)
    ELSE LET len == IF ~Truthy(length) THEN Num(Len(digest.b)) ELSE length IN
      IF Truthy(len) /\ StrictNe(Len(digest.b), len) THEN Throw(MsgLengthMismatch)
      ELSE IF NumGt(len, 127) THEN Throw(MsgLengthTooLarge)
      ELSE Return(Buf(<<ToUint8(c.val), ToUint8(len)>> \o digest.b))

\* a variant of mh that tests hashfn for truthiness: if (hashfn)
mhTruthy(hashOrDigest, hashfn, length) ==
  IF IsNullish(hashOrDigest) THEN Throw(MsgDispatchArgs)
  ELSE IF Truthy(hashfn) THEN encode(hashOrDigest, hashfn, length)
  ELSE decode(hashOrDigest)

\* mh(hashOrDigest, hashfn, length), the exported function
mh(hashOrDigest, hashfn, length) ==
  IF IsNullish(hashOrDigest) THEN Throw(MsgDispatchArgs)
  ELSE IF ~IsNullish(hashfn) THEN encode(hashOrDigest, hashfn, length)
  ELSE decode(hashOrDigest)

(***************************************************************************)
(* The arguments the calls are made with.                                  *)
(***************************************************************************)
\* n bytes, the i-th being (f + i) % 256
Bytes(n, f) == [i \in 1..n |-> (f + i) % 256]

\* first bytes tried in envelopes: 0, application codes and their
\* neighbours, the registered codes and their neighbours, 0x99, 0xff
CodeBytes == {0, 1, 5, 15, 16, 17, 18, 19, 20, 21, 63, 64, 65, 66, 153, 255}

\* second bytes tried in an envelope with n bytes after the first two
LengthBytes(n) == {n % 256, (n + 1) % 256, 0}

Digests == {Buf(Bytes(n, f)) : n \in 0..MaxLen, f \in 1..MaxFill}

Envelopes ==
  {Buf(<<>>)} \cup {Buf(<<c>>) : c \in CodeBytes} \cup
  UNION {{Buf(<<c, l>> \o Bytes(n, f)) :
            c \in CodeBytes, l \in LengthBytes(n), f \in 1..MaxFill} : n \in 0..MaxLen}

NonBuffers ==
  {Undefined, Null, Num(0), Num(20), NaN, Str(""), Str("sha1"), Bool(FALSE),
   Bool(TRUE), Obj}

HashFns ==
  {Str(x) : x \in DOMAIN names \cup {"", "not-a-hash", "SHA1"}} \cup
  {Num(k) : k \in CodeBytes \cup {0 - 1, 256}} \cup
  {Half(k) : k \in {0, 1, 15, 17}} \cup
  {Undefined, Null, NaN, Bool(TRUE), Obj, Buf(<<17>>)}

Lengths(digest) ==
  {Undefined, Null, Num(0), NaN, Str(""), Str("20"), Bool(TRUE), Num(5), Half(5),
   Num(Len(digest.b)), Num(Len(digest.b) + 1)}

(***************************************************************************)
(* The state machine.                                                      *)
(***************************************************************************)
NoResult == Return(Undefined)

Init ==
  /\ pc = "ready"
  /\ op = "none"
  /\ res = NoResult
  /\ \/ /\ a1 \in Envelopes \cup NonBuffers
        /\ a2 \in {Undefined, Null}
        /\ a3 = Undefined
     \/ /\ a1 \in Digests \cup NonBuffers
        /\ a2 \in HashFns
        /\ a3 \in Lengths(a1)

Call(name, outcome) ==
  /\ pc = "ready"
  /\ pc' = "done"
  /\ op' = name
  /\ res' = outcome
  /\ UNCHANGED <<a1, a2, a3>>

CallValidate == Call("validate", Return(validate(a1)))

CallDecode == Call("decode", decode(a1))

CallCoerceCode == Call("coerceCode", coerceCode(a2))

CallEncode == Call("encode", encode(a1, a2, a3))

CallMh == Call("mh", mh(a1, a2, a3))

\* decode applied to the buffer a successful encode returned
DecodeEncoded ==
  /\ pc = "done"
  /\ op = "encode"
  /\ ~res.thrown
  /\ pc' = "decoded"
  /\ op' = "roundtrip"
  /\ res' = decode(res.val)
  /\ UNCHANGED <<a1, a2, a3>>

Next ==
  \/ CallValidate
  \/ CallDecode
  \/ CallCoerceCode
  \/ CallEncode
  \/ CallMh
  \/ DecodeEncoded

Spec == Init /\ [][Next]_vars

(***************************************************************************)
(* The vocabulary of the claims.                                           *)
(***************************************************************************)
\* the codes the claims call registered: 0x11, 0x12, 0x13, 0x14, 0x40, 0x41
RegisteredCodes == {17, 18, 19, 20, 64, 65}

\* the codes the claims call application codes
ApplicationCodes == 1..15

ValidCodes == RegisteredCodes \cup ApplicationCodes

\* the failure kind each error message stands for
Kind(msg) ==
  CASE msg \in {MsgDispatchArgs, MsgEncodeArgs} -> "MissingArguments"
    [] msg = MsgCodeType -> "InvalidCodeType"
    [] msg = MsgUnknownName -> "UnknownHashName"
    [] msg = MsgUnrecognizedCode -> "UnrecognizedCode"
    [] msg = MsgDigestType -> "InvalidDigestType"
    [] msg = MsgLengthMismatch -> "LengthMismatch"
    [] msg = MsgLengthTooLarge -> "LengthTooLarge"
    [] msg = MsgNotBuffer -> "NotAByteSequence"
    [] msg = MsgTooShort -> "TooShort"
    [] msg = MsgTooLong -> "TooLong"
    [] msg = MsgUnknownCode -> "UnknownFunctionCode"
    [] msg = MsgInconsistent -> "LengthInconsistent"
    [] OTHER -> "none"

\* the failure kind of a value validate returned ("none" for undefined)
Reported(v) == IF v.t = "error" THEN Kind(v.s) ELSE "none"

\* the call failed with the given kind
FailedWith(r, kind) == r.thrown /\ r.val.t = "error" /\ Kind(r.val.s) = kind

\* the bytes of a sequence after its first two
AfterTwo(bytes) == [i \in 1..(Len(bytes) - 2) |-> bytes[i + 2]]

\* the failure the validate contract selects for an input, in its order
ValidateContract(x) ==
  IF x.t # "buffer" THEN "NotAByteSequence"
  ELSE IF Len(x.b) < 3 THEN "TooShort"
  ELSE IF Len(x.b) > 129 THEN "TooLong"
  ELSE IF x.b[1] \notin ValidCodes THEN "UnknownFunctionCode"
  ELSE IF Len(x.b) - 2 # x.b[2] THEN "LengthInconsistent"
  ELSE "none"

(***************************************************************************)
(* C2                                                                      *)
(***************************************************************************)
\* C2: validate never throws; for every input it returns no error or the
\* one failure that the fixed order NotAByteSequence, TooShort, TooLong,
\* UnknownFunctionCode, LengthInconsistent selects first, and no error
\* exactly when none of the five applies.
C2_ValidateOrder ==
  op = "validate" =>
    /\ ~res.thrown
    /\ res.val.t \in {"undefined", "error"}
    /\ Reported(res.val) = ValidateContract(a1)
    /\ (res.val = Undefined) <=> (ValidateContract(a1) = "none")

\* a buffer that is too long and starts with an unknown code is TooLong
C2_Witness ==
  /\ op = "validate"
  /\ a1.t = "buffer"
  /\ Len(a1.b) > 129
  /\ a1.b[1] = 0
  /\ Reported(res.val) = "TooLong"

(***************************************************************************)
(* C1                                                                      *)
(***************************************************************************)
\* the call is encode(digest, code) with a valid code, a digest of at most
\* 127 bytes and no length argument
RoundTripArgs ==
  /\ a1.t = "buffer"
  /\ Len(a1.b) <= 127
  /\ a2 \in {Num(c) : c \in ValidCodes}
  /\ a3 = Undefined

\* the record the round trip is to return
RoundTripRecord ==
  [code |-> a2.n,
   name |-> IF a2.n \in RegisteredCodes THEN Str(codes[a2.n]) ELSE Undefined,
   length |-> Len(a1.b),
   digest |-> a1.b]

\* encode succeeded and, once its result is decoded, decode succeeded with
\* that record
RoundTripHolds ==
  /\ op = "encode" => ~res.thrown
  /\ op = "roundtrip" => ~res.thrown /\ res.dec = RoundTripRecord

\* C1: for every registered or application code and every digest of 0 to
\* 127 bytes, encode(digest, code) succeeds and decode of its result
\* succeeds and returns {code, name, length = digest.length, digest}.
C1_RoundTrip == RoundTripArgs => RoundTripHolds

\* The same round trip for the digests of 1 to 127 bytes only.
RoundTripNonEmpty == (RoundTripArgs /\ Len(a1.b) >= 1) => RoundTripHolds

(***************************************************************************)
(* C3                                                                      *)
(***************************************************************************)
\* C3: validate applied to the envelope of code byte 5, length byte 0 and
\* no digest bytes reports no error, and decode of it succeeds with
\* name = undefined, length = 0 and an empty digest.
C3_ZeroLengthAccepted ==
  a1 = Buf(<<5, 0>>) =>
    /\ op = "validate" => res.val = Undefined
    /\ op = "decode" =>
         /\ ~res.thrown
         /\ res.dec = [code |-> 5, name |-> Undefined, length |-> 0, digest |-> <<>>]

\* C3 as amended: the envelope of code byte 5, length byte 0 and no digest
\* bytes is two bytes long, validate reports TooShort for it and decode
\* fails with TooShort; the envelope of code byte 5, length byte 1 and one
\* digest byte passes validate and decodes with name = undefined,
\* length = 1 and that digest byte.
C3_ZeroLengthRejected ==
  /\ a1 = Buf(<<5, 0>>) =>
       /\ op = "validate" => ~res.thrown /\ Reported(res.val) = "TooShort"
       /\ op = "decode" => FailedWith(res, "TooShort")
  /\ (a1.t = "buffer" /\ Len(a1.b) = 3 /\ a1.b[1] = 5 /\ a1.b[2] = 1) =>
       /\ op = "validate" => res.val = Undefined
       /\ op = "decode" =>
            /\ ~res.thrown
            /\ res.dec = [code |-> 5, name |-> Undefined, length |-> 1,
                          digest |-> <<a1.b[3]>>]

\* decode was applied to the two-byte envelope and failed
C3_Witness ==
  /\ op = "decode"
  /\ a1 = Buf(<<5, 0>>)
  /\ res.thrown

(***************************************************************************)
(* C4                                                                      *)
(***************************************************************************)
\* the returned envelope is [resolved code][digest.length][digest]
EnvelopeLayout ==
  /\ res.val.t = "buffer"
  /\ a1.t = "buffer"
  /\ Len(a1.b) <= 127
  /\ Len(res.val.b) = Len(a1.b) + 2
  /\ coerceCode(a2) = Return(Num(res.val.b[1]))
  /\ res.val.b[2] = Len(a1.b)
  /\ AfterTwo(res.val.b) = a1.b

\* C4: whenever encode succeeds, the envelope is the code coerceCode
\* resolves hashfn to, then digest.length, then the digest bytes unchanged:
\* digest.length + 2 bytes in all, and digest.length is at most 127.
C4_EnvelopeLayout == (op = "encode" /\ ~res.thrown) => EnvelopeLayout

\* The same layout for the calls whose hashfn is not a non-integer number.
EnvelopeLayoutIntegerCode ==
  (op = "encode" /\ ~res.thrown /\ a2.h = 0) => EnvelopeLayout

(***************************************************************************)
(* C5                                                                      *)
(***************************************************************************)
\* the failure the encode contract selects, in its order ("coerceCode" for
\* the failure of coerceCode, "none" for success); absent/empty is read as
\* falsy
EncodeContract(digest, hashfn, length) ==
  IF ~Truthy(digest) \/ ~Truthy(hashfn) THEN "MissingArguments"
  ELSE IF coerceCode(hashfn).thrown THEN "coerceCode"
  ELSE IF digest.t # "buffer" THEN "InvalidDigestType"
  ELSE IF Truthy(length) /\ length # Num(Len(digest.b)) THEN "LengthMismatch"
  ELSE IF Len(digest.b) > 127 THEN "LengthTooLarge"
  ELSE "none"

\* C5: encode reports the first violated precondition in the order
\* MissingArguments, the failure of coerceCode unchanged, InvalidDigestType,
\* LengthMismatch, LengthTooLarge, and succeeds only when none is violated;
\* a falsy length never causes LengthMismatch.
C5_EncodeOrder ==
  op = "encode" =>
    LET want == EncodeContract(a1, a2, a3) IN
    /\ (want = "none") <=> ~res.thrown
    /\ want = "coerceCode" => res = coerceCode(a2)
    /\ want \notin {"none", "coerceCode"} => FailedWith(res, want)
    /\ ~Truthy(a3) => ~FailedWith(res, "LengthMismatch")

\* the digest is not a buffer and the hash function is unknown: the failure
\* of coerceCode is the one reported
C5_Witness ==
  /\ op = "encode"
  /\ Truthy(a1)
  /\ a1.t # "buffer"
  /\ Truthy(a2)
  /\ coerceCode(a2).thrown
  /\ res = coerceCode(a2)
  /\ Truthy(a3)

(***************************************************************************)
(* C6                                                                      *)
(***************************************************************************)
\* the outcome the coerceCode contract gives for the designator a2
CoerceCodeContract ==
  /\ CASE a2.t = "string" /\ a2.s \in DOMAIN names -> res = Return(Num(names[a2.s]))
       [] a2.t = "string" /\ a2.s \notin DOMAIN names -> FailedWith(res, "UnknownHashName")
       [] a2.t = "number" /\ a2 \in {Num(c) : c \in ValidCodes} -> res = Return(a2)
       [] a2.t = "number" /\ a2 \notin {Num(c) : c \in ValidCodes} ->
            FailedWith(res, "UnrecognizedCode")
       [] OTHER -> FailedWith(res, "InvalidCodeType")
  /\ ~res.thrown => res.val \in {Num(c) : c \in ValidCodes}

\* C6: coerceCode returns the code of a registered name and fails with
\* UnknownHashName for any other string; fails with InvalidCodeType for a
\* value that is neither string nor number; returns a number that is a
\* registered or application code and fails with UnrecognizedCode for any
\* other number; so every value it returns is a registered or application
\* code.
C6_CoerceCode == op = "coerceCode" => CoerceCodeContract

\* The same resolution for the designators that are not non-integer numbers.
CoerceCodeInteger == (op = "coerceCode" /\ a2.h = 0) => CoerceCodeContract

(***************************************************************************)
(* C7                                                                      *)
(***************************************************************************)
\* C7: decode fails exactly when validate reports a failure, and with that
\* failure; otherwise it returns code = byte 0, length = byte 1, digest =
\* the bytes after the first two (length of them) and name = the registered
\* name of the code, populated exactly for the registered codes and
\* undefined for the application codes.
C7_DecodeRecord ==
  op = "decode" =>
    /\ res.thrown <=> (validate(a1) # Undefined)
    /\ res.thrown => res.val = validate(a1)
    /\ ~res.thrown =>
         /\ res.dec.code = a1.b[1]
         /\ res.dec.length = a1.b[2]
         /\ res.dec.digest = AfterTwo(a1.b)
         /\ Len(res.dec.digest) = res.dec.length
         /\ (res.dec.name # Undefined) <=> (res.dec.code \in RegisteredCodes)
         /\ res.dec.code \in RegisteredCodes => res.dec.name = Str(codes[res.dec.code])
         /\ res.dec.code \in ApplicationCodes => res.dec.name = Undefined

\* decode returned the record of a registered code, with its name
C7_Witness ==
  /\ op = "decode"
  /\ ~res.thrown
  /\ res.dec.code = 18
  /\ res.dec.name = Str("sha2-256")
  /\ Len(res.dec.digest) >= 1

(***************************************************************************)
(* C8                                                                      *)
(***************************************************************************)
\* C8: for any byte sequence whose byte 0 is neither a registered code nor
\* in 1..15, validate reports UnknownFunctionCode.
C8_UnknownCodeAnyLength ==
  (op = "validate" /\ a1.t = "buffer" /\ Len(a1.b) >= 1 /\ a1.b[1] \notin ValidCodes) =>
    Reported(res.val) = "UnknownFunctionCode"

\* C8 as amended: for any byte sequence of 3 to 129 bytes whose byte 0 is
\* neither a registered code nor in 1..15, validate reports
\* UnknownFunctionCode.
C8_UnknownCodeInRange ==
  (/\ op = "validate"
   /\ a1.t = "buffer"
   /\ Len(a1.b) \in 3..129
   /\ a1.b[1] \notin ValidCodes) =>
    Reported(res.val) = "UnknownFunctionCode"

\* an envelope of legal size with code 0x10 and a wrong length byte is
\* reported as UnknownFunctionCode
C8_Witness ==
  /\ op = "validate"
  /\ a1.t = "buffer"
  /\ Len(a1.b) \in 3..129
  /\ a1.b[1] = 16
  /\ a1.b[2] # Len(a1.b) - 2
  /\ Reported(res.val) = "UnknownFunctionCode"

(***************************************************************************)
(* C9                                                                      *)
(***************************************************************************)
\* C9: for any byte sequence in which the number of bytes minus 2 differs
\* from byte 1, validate reports LengthInconsistent.
C9_InconsistentAnySequence ==
  (op = "validate" /\ a1.t = "buffer" /\ Len(a1.b) >= 2 /\ Len(a1.b) - 2 # a1.b[2]) =>
    Reported(res.val) = "LengthInconsistent"

\* C9 as amended: for any byte sequence of 3 to 129 bytes whose byte 0 is a
\* registered code or in 1..15 and in which the number of bytes minus 2
\* differs from byte 1, validate reports LengthInconsistent.
C9_InconsistentValidHeader ==
  (/\ op = "validate"
   /\ a1.t = "buffer"
   /\ Len(a1.b) \in 3..129
   /\ a1.b[1] \in ValidCodes
   /\ Len(a1.b) - 2 # a1.b[2]) =>
    Reported(res.val) = "LengthInconsistent"

\* an envelope with a registered code and one digest byte less than byte 1
\* says is reported as LengthInconsistent
C9_Witness ==
  /\ op = "validate"
  /\ a1.t = "buffer"
  /\ Len(a1.b) \in 3..129
  /\ a1.b[1] = 17
  /\ a1.b[2] = Len(a1.b) - 1
  /\ Reported(res.val) = "LengthInconsistent"

(***************************************************************************)
(* C10                                                                     *)
(***************************************************************************)
\* C10: the dispatcher fails with MissingArguments when hashOrDigest is
\* absent; when hashfn is not absent (0 and "" included) its outcome is
\* that of encode(hashOrDigest, hashfn, length); when hashfn is absent its
\* outcome is that of decode(hashOrDigest).
C10_Dispatcher ==
  op = "mh" =>
    IF a1.t \in {"undefined", "null"} THEN FailedWith(res, "MissingArguments")
    ELSE IF a2.t \notin {"undefined", "null"} THEN res = encode(a1, a2, a3)
    ELSE res = decode(a1)

\* the dispatcher was called with a buffer and the hashfn 0 or "", and
\* failed as encode does
C10_Witness ==
  /\ op = "mh"
  /\ a1.t = "buffer"
  /\ a2 \in {Num(0), Str("")}
  /\ res = Throw(MsgEncodeArgs)

====
